---------------------------- MODULE Spec2Model ----------------------------
(***************************************************************************)
(* Model of the BACnet event server: the KurrentDB poll thread             *)
(* (kurrentdb_client.c), the event callback (main.c), the message handler  *)
(* (message_handler.c), the Redis cache mirror (redis_cache.c) and the     *)
(* BACnet object registry with its COV subscriptions (bacnet_server.c).    *)
(*                                                                         *)
(* Real values are modelled as integers in tenths (20.4 is 204), so the    *)
(* COV comparison fabs(d1 - d2) >= increment is an integer comparison.     *)
(***************************************************************************)
EXTENDS Integers, Sequences, FiniteSets, TLC

(***************************************************************************)
(* Bounds of the model                                                     *)
(***************************************************************************)
MaxEvents == 2        \* length of the stream of a subscription
MaxRetry == 1         \* redeliveries of an unacknowledged event before the store parks it
BatchLimit == 2       \* events per fetched batch
MaxLifetime == 1      \* largest lifetime (seconds) a COV client asks for
MaxCovSubs == 2       \* config.max_cov_subscriptions of the modelled server
MaxObjects == 2       \* config.max_objects of the modelled server
MaxGrant == 2         \* largest lifetime asked for in the subscription-table specification
MaxElapsed == 2       \* most seconds between two lifetime updates of the task thread
MaxReconnectAttempts == 1  \* kurrentdb.maxReconnectAttempts of the modelled configuration
InitialCapacity == 2   \* records client->subscriptions holds before it first grows (the source starts with 8)


(***************************************************************************)
(* Data                                                                    *)
(***************************************************************************)
OBJECT_ANALOG_VALUE == 2
OBJECT_MULTI_STATE_VALUE == 19

K1 == <<OBJECT_ANALOG_VALUE, 1>>
K2 == <<OBJECT_ANALOG_VALUE, 2>>
Keys == {K1, K2}

\* a multi-state object; the registry and the cache hold an entry per key
K3 == <<OBJECT_MULTI_STATE_VALUE, 1>>
ObjectKeys == Keys \cup {K3}

\* subscription ids of g_subscriptions: s1 without, s2 with an instance offset
Subs == {"s1", "s2"}

NoFlags == [in_alarm |-> FALSE, fault |-> FALSE,
            overridden |-> FALSE, out_of_service |-> FALSE]
AlarmFlags == [in_alarm |-> TRUE, fault |-> FALSE,
               overridden |-> FALSE, out_of_service |-> FALSE]

\* absent object / blob / cursor / subscriber
NoObj == [present |-> FALSE]
NoBlob == [present |-> FALSE]
NoCursor == -1

Abs(x) == IF x < 0 THEN -x ELSE x

(***************************************************************************)
(* Raw events of a stream.  raw = "nodata" is an entry without a data      *)
(* body, "badjson" a body that message_handler_parse rejects, "json" a     *)
(* body that decodes to the message in the other fields.                   *)
(***************************************************************************)
Ev(raw, mt, key, vt, cov, val, hasFlags, flags) ==
    [raw |-> raw, mt |-> mt, key |-> key, vt |-> vt, cov |-> cov,
     val |-> val, hasFlags |-> hasFlags, flags |-> flags, state_count |-> 0]

EvNoData == Ev("nodata", "none", K1, "real", 0, 0, FALSE, NoFlags)
EvBad == Ev("badjson", "none", K1, "real", 0, 0, FALSE, NoFlags)
EvDef(key, vt, cov, val) == Ev("json", "ObjectDefinition", key, vt, cov, val, FALSE, NoFlags)
EvUpd(key, val, hasFlags, flags) == Ev("json", "ValueUpdate", key, "real", 0, val, hasFlags, flags)
EvDel(key) == Ev("json", "ObjectDelete", key, "real", 0, 0, FALSE, NoFlags)
EvCfg == Ev("json", "DeviceConfig", K1, "real", 0, 0, FALSE, NoFlags)

\* events the streams of the pipeline specification are made of
StreamEvents ==
    {EvBad, EvDef(K1, "real", 0, 200), EvUpd(K1, 204, FALSE, NoFlags)}

\* events handed to on_event_received in the apply specification
ApplyEvents ==
    {EvNoData, EvBad, EvCfg, EvDef(K1, "real", 0, 200), EvDef(K1, "unsigned", 0, 200),
     EvDef(K2, "real", 0, 200), EvUpd(K1, 204, FALSE, NoFlags),
     EvUpd(K1, 204, TRUE, AlarmFlags), EvDel(K1)}

\* events handed to on_event_received in the COV specification
CovEvents ==
    {EvDef(K1, "real", 5, 200), EvDef(K1, "real", 0, 200), EvDef(K2, "real", 5, 200),
     EvUpd(K1, 204, FALSE, NoFlags), EvUpd(K1, 206, FALSE, NoFlags),
     EvUpd(K1, 200, TRUE, AlarmFlags), EvDel(K1)}

(***************************************************************************)
(* Redis cache (redis_cache.c).  A cache state cs is a record              *)
(*   blob   : key -> stored JSON blob or NoBlob                            *)
(*   index  : members of the set <prefix>objects:index                     *)
(*   cursor : subscription -> field of the hash <prefix>stream:positions   *)
(*   err    : redis_state.ctx->err, set by hiredis when a command gets no  *)
(*            reply and never cleared by this program                      *)
(* Every redisCommand has an outcome: "ok", "err" (an error reply) or      *)
(* "null" (no reply: the connection broke, ctx->err is set).               *)
(***************************************************************************)
Outcomes == {"ok", "err", "null"}

\* once ctx->err is set hiredis answers every further command with NULL
Eff(err, o) == IF err THEN "null" ELSE o

redis_cache_is_connected(cs) == cs.connected /\ ~cs.err

\* the JSON text written by the snprintf of redis_cache_store_object
Serialize(obj) ==
    [present |-> TRUE, value_type |-> obj.value_type, cov_increment |-> obj.cov_increment,
     present_value |-> obj.present_value, status_flags |-> obj.status_flags,
     stream_position |-> obj.stream_position, state_count |-> obj.state_count]

\* the cached_object_t rebuilt from a blob by redis_cache_load_object
ParseBlob(key, blob) ==
    [key |-> key, value_type |-> blob.value_type, cov_increment |-> blob.cov_increment,
     present_value |-> blob.present_value, status_flags |-> blob.status_flags,
     stream_position |-> blob.stream_position, state_count |-> blob.state_count]

redis_cache_store_object(cs, obj, oSet, oSadd) ==
    IF ~redis_cache_is_connected(cs) THEN [cs |-> cs, rc |-> -1, full |-> FALSE]
    ELSE LET r1 == Eff(cs.err, oSet) IN
         IF r1 # "ok"
         THEN [cs |-> [cs EXCEPT !.err = (r1 = "null")], rc |-> -1, full |-> FALSE]
         ELSE LET cs1 == [cs EXCEPT !.blob[obj.key] = Serialize(obj)]
                  r2 == Eff(cs1.err, oSadd)
              IN  [cs |-> [cs1 EXCEPT !.index = IF r2 = "ok" THEN @ \cup {obj.key} ELSE @,
                                      !.err = (r2 = "null")],
                   rc |-> 0, full |-> (r2 = "ok")]

redis_cache_load_object(cs, key, oGet) ==
    IF ~redis_cache_is_connected(cs) THEN [cs |-> cs, rc |-> -1, obj |-> NoObj]
    ELSE LET r == Eff(cs.err, oGet) IN
         IF r # "ok" \/ ~cs.blob[key].present
         THEN [cs |-> [cs EXCEPT !.err = (r = "null")], rc |-> -1, obj |-> NoObj]
         ELSE [cs |-> cs, rc |-> 0, obj |-> ParseBlob(key, cs.blob[key])]

redis_cache_update_value(cs, key, value_type, value, status_flags, oGet, oSet, oSadd) ==
    IF ~redis_cache_is_connected(cs) THEN [cs |-> cs, rc |-> -1, full |-> FALSE]
    ELSE LET ld == redis_cache_load_object(cs, key, oGet) IN
         IF ld.rc # 0 THEN [cs |-> ld.cs, rc |-> -1, full |-> FALSE]
         ELSE LET obj == [ld.obj EXCEPT
                            !.present_value = value,
                            !.status_flags = IF status_flags.has THEN status_flags.flags ELSE @]
              IN  redis_cache_store_object(ld.cs, obj, oSet, oSadd)

redis_cache_delete_object(cs, key, oDel, oSrem) ==
    IF ~redis_cache_is_connected(cs)
    THEN [cs |-> cs, rc |-> -1, wrote |-> FALSE, full |-> FALSE]
    ELSE LET r1 == Eff(cs.err, oDel)
             cs1 == [cs EXCEPT !.blob[key] = IF r1 = "ok" THEN NoBlob ELSE @,
                               !.err = (r1 = "null")]
             r2 == Eff(cs1.err, oSrem)
         IN  [cs |-> [cs1 EXCEPT !.index = IF r2 = "ok" THEN @ \ {key} ELSE @,
                                 !.err = cs1.err \/ (r2 = "null")],
              rc |-> 0, wrote |-> (r1 = "ok"), full |-> (r1 = "ok" /\ r2 = "ok")]

redis_cache_store_stream_position(cs, sub, position, oHset) ==
    IF ~redis_cache_is_connected(cs) THEN [cs |-> cs, rc |-> -1]
    ELSE LET r == Eff(cs.err, oHset) IN
         IF r # "ok" THEN [cs |-> [cs EXCEPT !.err = (r = "null")], rc |-> -1]
         ELSE [cs |-> [cs EXCEPT !.cursor[sub] = position], rc |-> 0]


(***************************************************************************)
(* BACnet object registry and COV manager (bacnet_server.c).  A server     *)
(* state sv is a record                                                    *)
(*   objects : key -> bacnet_object_internal_t or NoObj                    *)
(*   subs    : the linked list cov_subscriptions, head first; the field    *)
(*             granted of a subscription is history: the lifetime given by *)
(*             its most recent subscribe or renewal                        *)
(* A bacnet_value_t is a record [type, v].                                 *)
(***************************************************************************)
object_count(sv) == Cardinality({k \in ObjectKeys : sv.objects[k].present})

value_to_double(value) ==
    CASE value.type = "null" -> 0
      [] value.type = "boolean" -> IF value.v # 0 THEN 1 ELSE 0
      [] OTHER -> value.v

\* faulty variant of values_differ_by_increment: an increment of 0 reports
\* every update as a change
DifferOnZeroIncrement(v1, v2, increment) ==
    IF increment <= 0 THEN TRUE
    ELSE Abs(value_to_double(v1) - value_to_double(v2)) >= increment

values_differ_by_increment(v1, v2, increment) ==
    LET d1 == value_to_double(v1)
        d2 == value_to_double(v2)
    IN  IF increment <= 0 THEN d1 # d2 ELSE Abs(d1 - d2) >= increment

\* the bacnet_value_t that the cache integration builds from a cached_object_t
ValueOfCached(obj) == [type |-> obj.value_type, v |-> obj.present_value]

bacnet_server_create_object(sv, key, initial_value, cov_increment) ==
    IF sv.objects[key].present THEN [sv |-> sv, ok |-> FALSE]
    ELSE IF object_count(sv) >= MaxObjects THEN [sv |-> sv, ok |-> FALSE]
    ELSE [sv |-> [sv EXCEPT !.objects[key] =
                      [present |-> TRUE, present_value |-> initial_value,
                       last_cov_value |-> initial_value, cov_increment |-> cov_increment]],
          ok |-> TRUE]

bacnet_server_delete_object(sv, key) ==
    IF sv.objects[key].present
    THEN [sv |-> [sv EXCEPT !.objects[key] = NoObj], ok |-> TRUE]
    ELSE [sv |-> sv, ok |-> FALSE]

\* faulty variant of Recipients: the loop does not test the remaining lifetime
RecipientsAnyLifetime(subs, key) ==
    SelectSeq(subs, LAMBDA s : s.key = key)

\* the subscriptions the notification loop sends to, in list order
Recipients(subs, key) ==
    SelectSeq(subs, LAMBDA s : s.key = key /\ s.lifetime > 0)

\* sendOk[i] is the result of the i-th send of the loop; the loop ignores it
bacnet_cov_send_notifications(sv, key, sendOk) ==
    IF ~sv.objects[key].present THEN [sv |-> sv, sent |-> <<>>, called |-> TRUE]
    ELSE LET rcp == Recipients(sv.subs, key) IN
         [sv |-> [sv EXCEPT !.objects[key].last_cov_value = sv.objects[key].present_value],
          sent |-> [i \in 1..Len(rcp) |->
                       [process_id |-> rcp[i].process_id, address |-> rcp[i].address,
                        key |-> key,
                        service |-> IF rcp[i].confirmed THEN "confirmed" ELSE "unconfirmed",
                        ok |-> sendOk[i]]],
          called |-> TRUE]

\* faulty variant of bacnet_server_update_value: an object the registry does
\* not hold is created with the value of the update
UpdateCreatesMissing(sv, key, value, check_cov, sendOk) ==
    [sv |-> [sv EXCEPT !.objects[key] =
                [present |-> TRUE, present_value |-> value, last_cov_value |-> value,
                 cov_increment |-> 0]],
     ok |-> TRUE, sent |-> <<>>, called |-> FALSE]

bacnet_server_update_value(sv, key, value, check_cov, sendOk) ==
    IF ~sv.objects[key].present
    THEN [sv |-> sv, ok |-> FALSE, sent |-> <<>>, called |-> FALSE]
    ELSE LET old_value == sv.objects[key].present_value
             sv1 == [sv EXCEPT !.objects[key].present_value = value]
         IN  IF check_cov /\ values_differ_by_increment(old_value, value,
                                                        sv1.objects[key].cov_increment)
             THEN LET n == bacnet_cov_send_notifications(sv1, key, sendOk) IN
                  [sv |-> n.sv, ok |-> TRUE, sent |-> n.sent, called |-> TRUE]
             ELSE [sv |-> sv1, ok |-> TRUE, sent |-> <<>>, called |-> FALSE]

SameSubscriber(s, key, process_id, address) ==
    s.key = key /\ s.process_id = process_id /\ s.address = address

\* faulty variant of AtCapacity: the table is full one record too late
AtCapacityOffByOne(sv) == Len(sv.subs) > MaxCovSubs

\* cov_subscription_count >= config.max_cov_subscriptions
AtCapacity(sv) == Len(sv.subs) >= MaxCovSubs

bacnet_cov_subscribe(sv, key, process_id, address, confirmed, lifetime) ==
    IF ~sv.objects[key].present THEN [sv |-> sv, ok |-> FALSE]
    ELSE IF AtCapacity(sv) THEN [sv |-> sv, ok |-> FALSE]
    ELSE IF \E i \in 1..Len(sv.subs) : SameSubscriber(sv.subs[i], key, process_id, address)
    THEN LET i == CHOOSE j \in 1..Len(sv.subs) :
                     /\ SameSubscriber(sv.subs[j], key, process_id, address)
                     /\ \A h \in 1..(j - 1) :
                           ~SameSubscriber(sv.subs[h], key, process_id, address)
         IN  [sv |-> [sv EXCEPT !.subs[i].lifetime = lifetime,
                                !.subs[i].confirmed = confirmed,
                                !.subs[i].granted = lifetime],
              ok |-> TRUE]
    ELSE [sv |-> [sv EXCEPT !.subs =
                      <<[process_id |-> process_id, address |-> address, key |-> key,
                         confirmed |-> confirmed, lifetime |-> lifetime,
                         granted |-> lifetime]>> \o @],
          ok |-> TRUE]

bacnet_cov_unsubscribe(sv, key, process_id, address) ==
    IF \E i \in 1..Len(sv.subs) : SameSubscriber(sv.subs[i], key, process_id, address)
    THEN LET i == CHOOSE j \in 1..Len(sv.subs) :
                     /\ SameSubscriber(sv.subs[j], key, process_id, address)
                     /\ \A h \in 1..(j - 1) :
                           ~SameSubscriber(sv.subs[h], key, process_id, address)
         IN  [sv |-> [sv EXCEPT !.subs = SubSeq(@, 1, i - 1) \o SubSeq(@, i + 1, Len(@))],
              ok |-> TRUE]
    ELSE [sv |-> sv, ok |-> FALSE]

\* faulty variant of bacnet_cov_update_lifetimes: the decrement is not guarded
\* by lifetime > 0, so the unsigned lifetime 0 wraps
LifetimesUnguarded(sv) ==
    LET dec == [i \in 1..Len(sv.subs) |->
                  [sv.subs[i] EXCEPT !.lifetime = (@ - 1) % (2 ^ 16)]]
    IN  [sv EXCEPT !.subs = SelectSeq(dec, LAMBDA s : s.lifetime # 0)]

\* one pass over the list: finite lifetimes lose a second, those reaching 0 are unlinked
bacnet_cov_update_lifetimes(sv) ==
    LET dec == [i \in 1..Len(sv.subs) |->
                  IF sv.subs[i].lifetime > 0
                  THEN [sv.subs[i] EXCEPT !.lifetime = @ - 1]
                  ELSE sv.subs[i]]
        keep(i) == ~(sv.subs[i].lifetime > 0 /\ dec[i].lifetime = 0)
        RECURSIVE Kept(_)
        Kept(i) == IF i > Len(dec) THEN <<>>
                   ELSE IF keep(i) THEN <<dec[i]>> \o Kept(i + 1) ELSE Kept(i + 1)
    IN  [sv EXCEPT !.subs = Kept(1)]

(***************************************************************************)
(* Message handler (message_handler.c).  An application state st is        *)
(* [cs, sv]; plan is the sequence of outcomes of the Redis commands the    *)
(* handler issues, in order.  Results carry                                *)
(*   rc       : the int the C function returns                             *)
(*   cacheOk  : the Redis command that writes or removes the object entry  *)
(*              (SET or DEL) was issued and succeeded                      *)
(*   rejected : the registry refused the message                           *)
(***************************************************************************)
message_handler_parse(e) ==
    IF e.raw = "json" THEN "PARSE_OK" ELSE "PARSE_ERROR_INVALID_JSON"

message_handler_process_object_definition(st, msg, key, plan) ==
    LET obj == [key |-> key, value_type |-> msg.vt, cov_increment |-> msg.cov,
                present_value |-> msg.val, status_flags |-> NoFlags, stream_position |-> 0,
                state_count |-> msg.state_count]
        w == redis_cache_store_object(st.cs, obj, plan[1], plan[2])
    IN  IF w.rc # 0
        THEN [st |-> [st EXCEPT !.cs = w.cs], rc |-> -1, cacheOk |-> FALSE,
              rejected |-> FALSE, sent |-> <<>>, called |-> FALSE, used |-> 2]
        ELSE LET c == bacnet_server_create_object(st.sv, key, ValueOfCached(obj),
                                                  obj.cov_increment)
             IN  [st |-> [cs |-> w.cs, sv |-> c.sv], rc |-> IF c.ok THEN 0 ELSE -1,
                  cacheOk |-> TRUE, rejected |-> ~c.ok, sent |-> <<>>,
                  called |-> FALSE, used |-> 2]

message_handler_process_value_update(st, msg, key, plan, sendOk) ==
    LET w == redis_cache_update_value(st.cs, key, msg.vt, msg.val,
                                      [has |-> msg.hasFlags, flags |-> msg.flags],
                                      plan[1], plan[2], plan[3])
    IN  IF w.rc # 0
        THEN [st |-> [st EXCEPT !.cs = w.cs], rc |-> -1, cacheOk |-> FALSE,
              rejected |-> FALSE, sent |-> <<>>, called |-> FALSE, used |-> 3]
        ELSE LET u == bacnet_server_update_value(st.sv, key,
                                                 [type |-> msg.vt, v |-> msg.val],
                                                 TRUE, sendOk)
             IN  [st |-> [cs |-> w.cs, sv |-> u.sv], rc |-> IF u.ok THEN 0 ELSE -1,
                  cacheOk |-> TRUE, rejected |-> ~u.ok, sent |-> u.sent,
                  called |-> u.called, used |-> 3]

message_handler_process_object_delete(st, msg, key, plan) ==
    LET w == redis_cache_delete_object(st.cs, key, plan[1], plan[2])
        d == bacnet_server_delete_object(st.sv, key)
    IN  [st |-> [cs |-> w.cs, sv |-> d.sv], rc |-> 0,
         cacheOk |-> (w.rc = 0 /\ w.wrote), rejected |-> FALSE, sent |-> <<>>,
         called |-> FALSE, used |-> 2]

message_handler_process_device_config(st, msg) ==
    [st |-> st, rc |-> 0, cacheOk |-> TRUE, rejected |-> FALSE, sent |-> <<>>,
     called |-> FALSE, used |-> 0]

message_handler_process(st, msg, key, plan, sendOk) ==
    CASE msg.mt = "ObjectDefinition" ->
            message_handler_process_object_definition(st, msg, key, plan)
      [] msg.mt = "ValueUpdate" ->
            message_handler_process_value_update(st, msg, key, plan, sendOk)
      [] msg.mt = "ObjectDelete" ->
            message_handler_process_object_delete(st, msg, key, plan)
      [] msg.mt = "DeviceConfig" ->
            message_handler_process_device_config(st, msg)
      [] OTHER ->
            [st |-> st, rc |-> -1, cacheOk |-> FALSE, rejected |-> FALSE, sent |-> <<>>,
             called |-> FALSE, used |-> 0]

(***************************************************************************)
(* Event callback (main.c).  The result records what the call did:         *)
(*   result   : the bool on_event_received returns                         *)
(*   parse    : result of message_handler_parse ("none" without a body)    *)
(*   rc       : result of message_handler_process                          *)
(*   cursorOk : redis_cache_store_stream_position was called and returned 0*)
(***************************************************************************)
\* instance offset of the subscription (g_subscriptions[i].instance_offset)
InstanceOffset(sub) == IF sub = "s2" THEN 2 ELSE 0

\* uint32_t addition; the 32-bit width is scaled to 16 bits (TLC integers are 32-bit)
UintMod == 2 ^ 16
WithOffset(key, offset) == <<key[1], (key[2] + offset) % UintMod>>

\* faulty variant of ParseErrorResult: a parse error is answered with false
ParseErrorResultNak(st, parse_result) ==
    [st |-> st, result |-> FALSE, parse |-> parse_result, rc |-> 0,
     cacheOk |-> FALSE, rejected |-> FALSE, cursorOk |-> FALSE, sent |-> <<>>,
     called |-> FALSE]

\* the branch taken when message_handler_parse does not return PARSE_OK
ParseErrorResult(st, parse_result) ==
    [st |-> st, result |-> TRUE, parse |-> parse_result, rc |-> 0,
     cacheOk |-> FALSE, rejected |-> FALSE, cursorOk |-> FALSE, sent |-> <<>>,
     called |-> FALSE]

on_event_received(st, sub, position, e, plan, sendOk) ==
    IF e.raw = "nodata"
    THEN [st |-> st, result |-> TRUE, parse |-> "none", rc |-> 0, cacheOk |-> FALSE,
          rejected |-> FALSE, cursorOk |-> FALSE, sent |-> <<>>, called |-> FALSE]
    ELSE IF message_handler_parse(e) # "PARSE_OK"
    THEN ParseErrorResult(st, message_handler_parse(e))
    ELSE LET p == message_handler_process(st, e, WithOffset(e.key, InstanceOffset(sub)),
                                          plan, sendOk)
             c == IF p.rc = 0
                  THEN redis_cache_store_stream_position(p.st.cs, sub, position,
                                                         plan[p.used + 1])
                  ELSE [cs |-> p.st.cs, rc |-> -1]
         IN  [st |-> [p.st EXCEPT !.cs = c.cs], result |-> (p.rc = 0), parse |-> "PARSE_OK",
              rc |-> p.rc, cacheOk |-> p.cacheOk, rejected |-> p.rejected,
              cursorOk |-> (p.rc = 0 /\ c.rc = 0), sent |-> p.sent, called |-> p.called]


(***************************************************************************)
(* State                                                                   *)
(*   stream    : the events of the subscription's stream; position i is    *)
(*               the event number of stream[i]                             *)
(*   delivery  : the event store's view of each event of the persistent    *)
(*               subscription: "new" (to be sent), "inflight" (sent, no    *)
(*               decision received), "parked"; and its retry count         *)
(*   acks,naks : event positions for which the process posted an ack / a   *)
(*               nack to the event store                                   *)
(*   connected : client->connected                                         *)
(*   pollPc    : "idle" (poll thread between two fetches) or "deliver"     *)
(*               (inside the loop over the entries of a batch)             *)
(*   batch     : entries of the fetched batch not yet handed to on_event,  *)
(*               newest first as in the feed                               *)
(*   cache     : the Redis cache state                                     *)
(*   server    : the BACnet server state                                   *)
(*   last      : record of the on_event_received call made by the step     *)
(*               into this state (parse = "nocall" after any other step);  *)
(*               last.cov records a call of the COV manager instead        *)
(*   done      : positions whose event some on_event call has applied      *)
(*               successfully or skipped because it did not decode         *)
(***************************************************************************)
VARIABLES stream, delivery, acks, naks, connected, pollPc, batch,
          cache, server, last, done, mainPc, active,
          g_mutex, applyPc, startPc, client, pollThreads

vars == <<stream, delivery, acks, naks, connected, pollPc, batch,
          cache, server, last, done, mainPc, active,
          g_mutex, applyPc, startPc, client, pollThreads>>

storeVars == <<stream, delivery, acks, naks>>
pollVars == <<connected, pollPc, batch>>
\* mainPc: position of main ("running" in its main loop, then the steps of
\* its cleanup); active: sub->active of the subscription
\* g_mutex: the thread holding g_mutex of main.c, or "none"
\* applyPc: where the delivery loop of each subscription is in on_event_received:
\*          "idle" (outside), "locked" (g_mutex taken), "cache" (inside the Redis
\*          commands of the handler), "applied" (handler done, g_mutex held)
\* startPc: where main is in its loop over g_subscriptions: the index i of the
\*          subscription, and "idle", "loading" (inside
\*          redis_cache_load_stream_position) or "loaded"
\* client: the kurrentdb_client_t: base names the block that holds the array
\*          client->subscriptions (a realloc that moves the array gives a new
\*          one), capacity is subscription_capacity, subs the records of the
\*          array (user_data, active, and joins, the number of pthread_join
\*          calls made on poll_thread), phase "running", "stopping" (after
\*          kurrentdb_stop_event_loop), "destroyed" or "crashed"
\* pollThreads: per poll thread, the block of the record its argument points
\*          to, what it took as its client ("unread" before it starts), and
\*          "created", "polling" or "exited"
threadVars == <<g_mutex, applyPc, startPc, client, pollThreads>>
mainVars == <<mainPc, active, threadVars>>

Positions == 1..Len(stream)

\* number of Redis commands on_event_received can issue for an event
NumCommands(e) ==
    CASE e.raw # "json" -> 0
      [] e.mt = "ObjectDefinition" -> 3
      [] e.mt = "ValueUpdate" -> 4
      [] e.mt = "ObjectDelete" -> 3
      [] e.mt = "DeviceConfig" -> 1
      [] OTHER -> 0

\* outcome plans for n commands; after a "null" every later command is "null" too
Plans(n) ==
    {pl \in [1..4 -> Outcomes] :
        /\ \A i \in 1..3 : pl[i] = "null" => pl[i + 1] = "null"
        /\ \A i \in 1..4 : i > n => pl[i] = "ok"}

\* results of the sends of one notification loop
SendResults(sv, e) ==
    IF e.raw = "json" /\ e.mt = "ValueUpdate"
    THEN [1..Len(Recipients(sv.subs, e.key)) -> BOOLEAN]
    ELSE {<<>>}

InitCache == [connected |-> TRUE, err |-> FALSE,
              blob |-> [k \in ObjectKeys |-> NoBlob], index |-> {},
              cursor |-> [s \in Subs |-> NoCursor]]

InitServer == [objects |-> [k \in ObjectKeys |-> NoObj], subs |-> <<>>]

\* record of a call of the COV manager: op is "subscribe", "unsubscribe",
\* "tick" or "none"
CovCall(op, key, process_id, address, confirmed, lifetime, elapsed, ok) ==
    [op |-> op, key |-> key, process_id |-> process_id, address |-> address,
     confirmed |-> confirmed, lifetime |-> lifetime, elapsed |-> elapsed, ok |-> ok]

NoCov == CovCall("none", K1, 0, "a", FALSE, 0, 0, FALSE)

\* no call of a cache or client function on its own
NoIo == [op |-> "none"]

InitLast == [tick |-> 0, sub |-> "s1", pos |-> 0, ev |-> EvNoData, cov |-> NoCov,
             io |-> NoIo,
             result |-> TRUE, parse |-> "nocall", rc |-> 0, cacheOk |-> FALSE,
             rejected |-> FALSE, cursorOk |-> FALSE, sent |-> <<>>, called |-> FALSE]

\* the record of a call of on_event_received for event e at position pos
CallRecord(r, tick, sub, pos, e) ==
    [tick |-> tick, sub |-> sub, pos |-> pos, ev |-> e, cov |-> NoCov, io |-> NoIo,
     result |-> r.result, parse |-> r.parse, rc |-> r.rc, cacheOk |-> r.cacheOk,
     rejected |-> r.rejected, cursorOk |-> r.cursorOk, sent |-> r.sent,
     called |-> r.called]

\* after a step that is no call of on_event_received: only the position of the
\* latest call is kept
NoCall == [InitLast EXCEPT !.pos = last.pos]

\* the state after construction, but for the record of the latest call
InitState ==
    /\ acks = {} /\ naks = {}
    /\ connected = FALSE /\ pollPc = "idle" /\ batch = <<>>
    /\ cache = InitCache /\ server = InitServer
    /\ done = {}
    /\ mainPc = "running" /\ active = TRUE
    /\ g_mutex = "none" /\ applyPc = [t \in Subs |-> "idle"]
    /\ startPc = [i |-> 1, phase |-> "idle"]
    /\ client = [base |-> 0, capacity |-> InitialCapacity, subs |-> <<>>,
                 phase |-> "running"]
    /\ pollThreads = <<>>

InitCommon == InitState /\ last = InitLast

\* a function of the program called on its own: `x` is its input before the
\* call, and its input and result after it
Input(x) == [InitLast EXCEPT !.io = [op |-> "input", x |-> x]]
Output(x, y) == [InitLast EXCEPT !.io = [op |-> "output", x |-> x, y |-> y]]

(***************************************************************************)
(* Poll thread of the subscription (kurrentdb_client.c) and event store    *)
(***************************************************************************)
\* kurrentdb_client_connect succeeds
PollConnect ==
    /\ active
    /\ pollPc = "idle" /\ ~connected
    /\ connected' = TRUE
    /\ last' = NoCall
    /\ UNCHANGED <<mainVars, storeVars, pollPc, batch, cache, server, done>>

Available == {p \in Positions : delivery[p].state = "new"}

RECURSIVE Lowest(_, _)
Lowest(S, n) ==
    IF n = 0 \/ S = {} THEN {}
    ELSE LET m == CHOOSE x \in S : \A y \in S : x <= y
         IN  {m} \cup Lowest(S \ {m}, n - 1)

RECURSIVE Descending(_)
Descending(S) ==
    IF S = {} THEN <<>>
    ELSE LET m == CHOOSE x \in S : \A y \in S : x >= y
         IN  <<m>> \o Descending(S \ {m})

\* GET /subscriptions/<stream>/<group>/<count> answered with a batch
PollFetch ==
    /\ active
    /\ pollPc = "idle" /\ connected
    /\ Available # {}
    /\ LET got == Lowest(Available, BatchLimit) IN
         /\ batch' = Descending(got)
         /\ delivery' = [p \in Positions |->
                           IF p \in got THEN [delivery[p] EXCEPT !.state = "inflight"]
                           ELSE delivery[p]]
    /\ pollPc' = "deliver"
    /\ last' = NoCall
    /\ UNCHANGED <<mainVars, stream, acks, naks, connected, cache, server, done>>

\* one iteration of the loop over the entries: on_event for the oldest entry left;
\* the bool it returns is dropped
PollDeliver ==
    /\ pollPc = "deliver" /\ batch # <<>>
    /\ LET pos == batch[Len(batch)]
           e == stream[pos]
       IN  \E plan \in Plans(NumCommands(e)), sendOk \in SendResults(server, e) :
             LET r == on_event_received([cs |-> cache, sv |-> server], "s1", pos, e,
                                        plan, sendOk)
             IN  /\ cache' = r.st.cs
                 /\ server' = r.st.sv
                 /\ last' = CallRecord(r, 0, "s1", pos, e)
                 /\ done' = IF r.parse # "PARSE_OK" \/ r.rc = 0
                            THEN done \cup {pos} ELSE done
    /\ batch' = SubSeq(batch, 1, Len(batch) - 1)
    /\ pollPc' = IF Len(batch) = 1 THEN "idle" ELSE "deliver"
    /\ UNCHANGED <<mainVars, storeVars, connected>>

\* the event store gets no decision for an in-flight event within its message
\* timeout: it sends the event again, or parks it after MaxRetry retries.  The
\* process sees the store's view only through its next fetch, so the timeouts
\* are taken between two batches.
StoreTimeout ==
    \E p \in Positions :
      /\ pollPc = "idle"
      /\ delivery[p].state = "inflight"
      /\ delivery' = [delivery EXCEPT ![p] =
                        IF @.retries < MaxRetry
                        THEN [state |-> "new", retries |-> @.retries + 1]
                        ELSE [state |-> "parked", retries |-> @.retries]]
      /\ last' = NoCall
      /\ UNCHANGED <<mainVars, stream, acks, naks, pollVars, cache, server, done>>

RECURSIVE SeqsOf(_, _)
SeqsOf(S, n) ==
    IF n = 0 THEN {<<>>}
    ELSE {Append(q, x) : q \in SeqsOf(S, n - 1), x \in S}

Init ==
    /\ stream \in SeqsOf(StreamEvents, MaxEvents)
    /\ delivery = [p \in 1..MaxEvents |-> [state |-> "new", retries |-> 0]]
    /\ InitCommon

Next == PollConnect \/ PollFetch \/ PollDeliver \/ StoreTimeout

Spec == Init /\ [][Next]_vars

(***************************************************************************)
(* Apply path without the consumer: on_event_received is called with the   *)
(* events of ApplyEvents under every outcome of the Redis commands.        *)
(***************************************************************************)
ApplyPositions == {1}

\* a call of on_event_received made outside a poll thread; last.tick flips when
\* the call leaves every variable as it was, so that the call is a step
OnEvent(e, pos, plan, sendOk) ==
    LET r == on_event_received([cs |-> cache, sv |-> server], "s1", pos, e, plan, sendOk)
        rec == CallRecord(r, 0, "s1", pos, e)
    IN  /\ cache' = r.st.cs
        /\ server' = r.st.sv
        /\ last' = IF r.st.cs = cache /\ r.st.sv = server /\ rec = last
                   THEN [rec EXCEPT !.tick = 1] ELSE rec
        /\ UNCHANGED <<mainVars, storeVars, pollVars, done>>

ApplyEvent ==
    \E e \in ApplyEvents, pos \in ApplyPositions :
      \E plan \in Plans(NumCommands(e)), sendOk \in SendResults(server, e) :
        OnEvent(e, pos, plan, sendOk)

InitApply ==
    /\ stream = <<>>
    /\ delivery = <<>>
    /\ InitCommon

NextApply == ApplyEvent

SpecApply == InitApply /\ [][NextApply]_vars

(***************************************************************************)
(* COV manager: on_event_received is called with the events of CovEvents   *)
(* while Redis answers every command, BACnet clients subscribe and cancel, *)
(* and the task thread ages the subscriptions.  A step of the COV manager  *)
(* alone clears the record of the last on_event_received call.             *)
(***************************************************************************)
\* the BACnet clients: two watch K1, one of them also watches K2; confirmed is
\* the set of values of the request's issueConfirmedNotifications they use
Subscribers ==
    {[key |-> K1, process_id |-> 1, address |-> "a", confirmed |-> {TRUE, FALSE}],
     [key |-> K1, process_id |-> 2, address |-> "b", confirmed |-> {FALSE}],
     [key |-> K2, process_id |-> 1, address |-> "a", confirmed |-> {TRUE}]}

AllOk == [i \in 1..4 |-> "ok"]

CovApplyEvent ==
    \E e \in CovEvents :
      \E sendOk \in SendResults(server, e) :
        OnEvent(e, 1, AllOk, sendOk)

CovSubscribe ==
    \E c \in Subscribers, confirmed \in BOOLEAN, lifetime \in {0, MaxLifetime} :
      /\ confirmed \in c.confirmed
      /\ bacnet_cov_subscribe(server, c.key, c.process_id, c.address,
                              confirmed, lifetime).ok
      /\ server' = bacnet_cov_subscribe(server, c.key, c.process_id, c.address,
                                        confirmed, lifetime).sv
      /\ last' = NoCall
      /\ UNCHANGED <<mainVars, storeVars, pollVars, cache, done>>

CovUnsubscribe ==
    \E c \in Subscribers :
      /\ bacnet_cov_unsubscribe(server, c.key, c.process_id, c.address).ok
      /\ server' = bacnet_cov_unsubscribe(server, c.key, c.process_id, c.address).sv
      /\ last' = NoCall
      /\ UNCHANGED <<mainVars, storeVars, pollVars, cache, done>>

CovUpdateLifetimes ==
    /\ server' = bacnet_cov_update_lifetimes(server)
    /\ last' = [NoCall EXCEPT !.cov = CovCall("tick", K1, 0, "a", FALSE, 0, 1, TRUE)]
    /\ UNCHANGED <<mainVars, storeVars, pollVars, cache, done>>

NextCov == CovApplyEvent \/ CovSubscribe \/ CovUnsubscribe \/ CovUpdateLifetimes

SpecCov == InitApply /\ [][NextCov]_vars

(***************************************************************************)
(* Subscription table: the calls of the COV manager with every argument    *)
(* and every result recorded, on the objects that two ObjectDefinition     *)
(* events create.                                                          *)
(***************************************************************************)
\* a call of the COV manager that leaves the server as sv2; last.tick flips
\* when the call leaves every variable as it was, so that the call is a step
CovStep(sv2, call) ==
    LET rec == [NoCall EXCEPT !.cov = call]
    IN  /\ server' = sv2
        /\ last' = IF sv2 = server /\ rec = last THEN [rec EXCEPT !.tick = 1] ELSE rec
        /\ UNCHANGED <<mainVars, storeVars, pollVars, cache, done>>

SubsDefine ==
    \E k \in Keys : OnEvent(EvDef(k, "real", 5, 200), 1, AllOk, <<>>)

SubsSubscribe ==
    \E c \in Subscribers, confirmed \in BOOLEAN, lifetime \in 0..MaxGrant :
      /\ confirmed \in c.confirmed
      /\ LET r == bacnet_cov_subscribe(server, c.key, c.process_id, c.address,
                                       confirmed, lifetime)
         IN  CovStep(r.sv, CovCall("subscribe", c.key, c.process_id, c.address,
                                   confirmed, lifetime, 0, r.ok))

SubsUnsubscribe ==
    \E c \in Subscribers :
      LET r == bacnet_cov_unsubscribe(server, c.key, c.process_id, c.address)
      IN  CovStep(r.sv, CovCall("unsubscribe", c.key, c.process_id, c.address,
                                FALSE, 0, 0, r.ok))

\* the task thread of main.c: bacnet_cov_update_lifetimes(now - last_cov_update)
SubsTick ==
    \E elapsed \in 1..MaxElapsed :
      CovStep(bacnet_cov_update_lifetimes(server),
              CovCall("tick", K1, 0, "a", FALSE, 0, elapsed, TRUE))

NextSubs == SubsDefine \/ SubsSubscribe \/ SubsUnsubscribe \/ SubsTick

SpecSubs == InitApply /\ [][NextSubs]_vars

(***************************************************************************)
(* Instance offset: on_event_received is called for subscription s2, whose *)
(* objectInstanceOffset is 2, with events whose objectInstance is 0 or the *)
(* largest unsigned value.                                                 *)
(***************************************************************************)
OffsetInstances == {0, UintMod - 1}

OffsetEvents ==
    UNION {{EvDef(<<OBJECT_ANALOG_VALUE, i>>, "real", 0, 200),
            EvUpd(<<OBJECT_ANALOG_VALUE, i>>, 204, FALSE, NoFlags),
            EvUpd(<<OBJECT_ANALOG_VALUE, i>>, 206, TRUE, AlarmFlags),
            EvDel(<<OBJECT_ANALOG_VALUE, i>>)} : i \in OffsetInstances}

\* a call of on_event_received for an event of subscription sub
OnEventFor(sub, e, pos, plan, sendOk) ==
    LET r == on_event_received([cs |-> cache, sv |-> server], sub, pos, e, plan, sendOk)
        rec == CallRecord(r, 0, sub, pos, e)
    IN  /\ cache' = r.st.cs
        /\ server' = r.st.sv
        /\ last' = IF r.st.cs = cache /\ r.st.sv = server /\ rec = last
                   THEN [rec EXCEPT !.tick = 1] ELSE rec
        /\ UNCHANGED <<mainVars, storeVars, pollVars, done>>

OffsetApplyEvent ==
    \E e \in OffsetEvents : OnEventFor("s2", e, 1, AllOk, <<>>)

NextOffset == OffsetApplyEvent

SpecOffset == InitApply /\ [][NextOffset]_vars

(***************************************************************************)
(* Cache record round trip (redis_cache.c): redis_cache_store_object       *)
(* writes a record as JSON text, redis_cache_load_object rebuilds a record *)
(* from that text.  A record x has                                         *)
(*   value_type, state_count, state_texts, status_flags, stream_position   *)
(*   source_id     : a sequence of characters                              *)
(*   present_value : the bytes <<hi, lo>> of the union, lo being the byte  *)
(*                   that boolean_value occupies (little-endian layout)    *)
(***************************************************************************)
Chars(s) == {s[i] : i \in 1..Len(s)}

StoredRecords ==
    [value_type : {"real", "unsigned", "boolean"},
     present_value : {0, 1} \X {0, 1, 5},
     state_texts : {<<>>, <<"off", "on">>},
     status_flags : {NoFlags, AlarmFlags},
     source_id : {<<>>, <<"p", "l", "c">>, <<"a", "\"", "b">>},
     stream_position : {0, 7}]

\* state_count of a record is the number of its state texts
WithStateCount(x) ==
    [value_type |-> x.value_type, present_value |-> x.present_value,
     state_count |-> Len(x.state_texts), state_texts |-> x.state_texts,
     status_flags |-> x.status_flags, source_id |-> x.source_id,
     stream_position |-> x.stream_position]

\* object->present_value.boolean_value read for "%s": the byte lo as a bool;
\* a byte other than 0 and 1 is no value of bool, any outcome is possible
BooleanRead(x) ==
    IF x.present_value[2] \in {0, 1} THEN {x.present_value[2] = 1} ELSE BOOLEAN

\* the text the snprintf of redis_cache_store_object writes: strings are
\* copied with %s, unescaped, and state_texts is not written
StoreJson(x, b) ==
    [wellFormed |-> Chars(x.source_id) \cap {"\"", "\\"} = {},
     value_type |-> x.value_type,
     state_count |-> x.state_count,
     present_value_unsigned |-> x.present_value[1] * 256 + x.present_value[2],
     present_value_boolean |-> b,
     status_flags |-> x.status_flags,
     source_id |-> x.source_id,
     stream_position |-> x.stream_position]

\* redis_cache_load_object after GET: cJSON_ParseWithLength, memset, then the
\* members of the union assigned in turn, boolean_value last
LoadJson(j) ==
    IF ~j.wellFormed THEN [rc |-> -1]
    ELSE [rc |-> 0,
          obj |-> [value_type |-> j.value_type,
                   present_value |-> <<j.present_value_unsigned \div 256,
                                       IF j.present_value_boolean THEN 1 ELSE 0>>,
                   state_count |-> j.state_count,
                   state_texts |-> <<>>,
                   status_flags |-> j.status_flags,
                   source_id |-> j.source_id,
                   stream_position |-> j.stream_position]]

InitRoundTrip ==
    /\ stream = <<>> /\ delivery = <<>>
    /\ InitState
    /\ \E x \in StoredRecords : last = Input(WithStateCount(x))

\* redis_cache_store_object(x) followed by redis_cache_load_object of its key
StoreThenLoad ==
    /\ last.io.op = "input"
    /\ \E b \in BooleanRead(last.io.x) :
         last' = Output(last.io.x, LoadJson(StoreJson(last.io.x, b)))
    /\ UNCHANGED <<mainVars, storeVars, pollVars, cache, server, done>>

NextRoundTrip == StoreThenLoad

SpecRoundTrip == InitRoundTrip /\ [][NextRoundTrip]_vars

(***************************************************************************)
(* Cache interface: redis_cache_store_object and redis_cache_delete_object *)
(* called on their own, under every outcome of their Redis commands.       *)
(***************************************************************************)
\* the record the callers store for an object
CachedObject(key) ==
    [key |-> key, value_type |-> "real", cov_increment |-> 0, present_value |-> 200,
     status_flags |-> NoFlags, stream_position |-> 0, state_count |-> 0]

CachePut ==
    \E key \in Keys, o1 \in Outcomes, o2 \in Outcomes :
      LET w == redis_cache_store_object(cache, CachedObject(key), o1, o2)
      IN  /\ cache' = w.cs
          /\ last' = Output([fn |-> "put", key |-> key], w.rc)
          /\ UNCHANGED <<mainVars, storeVars, pollVars, server, done>>

CacheDelete ==
    \E key \in Keys, o1 \in Outcomes, o2 \in Outcomes :
      LET w == redis_cache_delete_object(cache, key, o1, o2)
      IN  /\ cache' = w.cs
          /\ last' = Output([fn |-> "delete", key |-> key], w.rc)
          /\ UNCHANGED <<mainVars, storeVars, pollVars, server, done>>

NextCache == CachePut \/ CacheDelete

SpecCache == InitApply /\ [][NextCache]_vars

(***************************************************************************)
(* Cache connection loss: events are applied while Redis commands may get  *)
(* no reply, and the cache server is reachable again afterwards: calls in  *)
(* which Redis would answer every command keep being made.                 *)
(***************************************************************************)
LossEvents ==
    {EvDef(K1, "real", 0, 200), EvDef(K2, "real", 0, 200),
     EvUpd(K1, 204, FALSE, NoFlags), EvUpd(K1, 206, FALSE, NoFlags), EvDel(K1)}

\* an event applied while the connection to the cache server may break
LossApplyEvent ==
    \E e \in LossEvents : \E plan \in Plans(NumCommands(e)) : OnEvent(e, 1, plan, <<>>)

\* an event applied while the cache server answers every command it receives
ReachableApplyEvent ==
    \E e \in LossEvents : OnEvent(e, 1, AllOk, <<>>)

NextLoss == LossApplyEvent \/ ReachableApplyEvent

\* the event store keeps delivering events, so on_event_received keeps being
\* called with the cache server reachable
SpecLoss == InitApply /\ [][NextLoss]_vars /\ WF_vars(ReachableApplyEvent)

(***************************************************************************)
(* Transport errors of the poll thread (kurrentdb_client.c): the /info     *)
(* request of kurrentdb_client_connect or the GET of the batch fails, the  *)
(* thread sleeps for the poll interval and goes round its loop again.      *)
(* last.io counts the failed requests made in a row.                       *)
(***************************************************************************)
Attempts == IF last.io.op = "retry" THEN last.io.n ELSE 0

\* the next failed request in a row; the count is followed up to one past
\* the configured maximum
Retried ==
    /\ Attempts <= MaxReconnectAttempts
    /\ last' = [NoCall EXCEPT !.io = [op |-> "retry", n |-> Attempts + 1]]

\* kurrentdb_client_connect fails: client->connected stays false
PollConnectFail ==
    /\ active
    /\ pollPc = "idle" /\ ~connected
    /\ Retried
    /\ UNCHANGED <<mainVars, storeVars, connected, pollPc, batch, cache, server, done>>

\* curl_easy_perform of the batch request does not return CURLE_OK
PollFetchFail ==
    /\ active
    /\ pollPc = "idle" /\ connected
    /\ Retried
    /\ UNCHANGED <<mainVars, storeVars, connected, pollPc, batch, cache, server, done>>

NextRetry == PollConnect \/ PollConnectFail \/ PollFetch \/ PollFetchFail \/ PollDeliver

SpecRetry == Init /\ [][NextRetry]_vars

(***************************************************************************)
(* Start of a subscription (main.c, kurrentdb_client.c): main builds the   *)
(* subscription_config_t from the cached cursor, and                       *)
(* kurrentdb_subscribe_persistent creates the persistent subscription.     *)
(* An input is the start configured for the subscription, the cursor that  *)
(* redis_cache_load_stream_position finds (NoCursor: none) and the event   *)
(* number at the end of the stream.                                        *)
(***************************************************************************)
StartInputs ==
    [start_from : {"BEGIN", "END", "POSITION"}, start_position : 0..2,
     cursor : {NoCursor, 0, 1, 2}, stream_end : {2, 3}]

\* the loop over g_subscriptions in main: the configured start is not read
StartConfig(x) ==
    IF x.cursor # NoCursor
    THEN [start_from |-> "POSITION", start_position |-> x.cursor + 1]
    ELSE [start_from |-> "BEGIN", start_position |-> 0]

\* the startFrom member of the body that kurrentdb_subscribe_persistent PUTs:
\* the text is fixed, sub_config is not used
kurrentdb_subscribe_persistent(sub_config) == 0

InitStart ==
    /\ stream = <<>> /\ delivery = <<>>
    /\ InitState
    /\ \E x \in StartInputs : last = Input(x)

StartSubscription ==
    /\ last.io.op = "input"
    /\ last' = Output(last.io.x, kurrentdb_subscribe_persistent(StartConfig(last.io.x)))
    /\ UNCHANGED <<mainVars, storeVars, pollVars, cache, server, done>>

NextStart == StartSubscription

SpecStart == InitStart /\ [][NextStart]_vars

(***************************************************************************)
(* Negative acknowledgement (kurrentdb_client.c): kurrentdb_nak_event      *)
(* called with a subscription id, an event id and an action; curl is the   *)
(* result of the POST.  The result is the bool returned and the request    *)
(* sent, if one is sent.                                                   *)
(***************************************************************************)
NakActions == {"retry", "skip", "park"}

NakInputs ==
    [subscription_id : Subs \cup {"unknown"}, event_id : 1..4,
     action : NakActions, curl : {"CURLE_OK", "CURLE_COULDNT_CONNECT"}]

NoRequest == [sent |-> FALSE]

kurrentdb_nak_event(x) ==
    IF x.subscription_id \notin Subs THEN [ok |-> FALSE, request |-> NoRequest]
    ELSE [ok |-> x.curl = "CURLE_OK",
          request |-> [sent |-> TRUE, subscription_id |-> x.subscription_id,
                       event_id |-> x.event_id, action |-> "retry"]]

InitNak ==
    /\ stream = <<>> /\ delivery = <<>>
    /\ InitState
    /\ \E x \in NakInputs : last = Input(x)

NakEvent ==
    /\ last.io.op = "input"
    /\ last' = Output(last.io.x, kurrentdb_nak_event(last.io.x))
    /\ UNCHANGED <<mainVars, storeVars, pollVars, cache, server, done>>

NextNak == NakEvent

SpecNak == InitNak /\ [][NextNak]_vars

(***************************************************************************)
(* Shutdown (main.c 522-542): main leaves its loop, clears sub->active     *)
(* (kurrentdb_stop_event_loop), joins the poll thread                      *)
(* (kurrentdb_unsubscribe), joins its BACnet task thread, which makes the  *)
(* COV lifetime updates, shuts the client and the BACnet server down and   *)
(* closes the cache connection.                                            *)
(***************************************************************************)
\* the poll thread leaves its while loop when it finds sub->active false
PollExit ==
    /\ pollPc = "idle" /\ ~active
    /\ pollPc' = "exited"
    /\ last' = NoCall
    /\ UNCHANGED <<storeVars, connected, batch, cache, server, done, mainVars>>

MainStopEventLoop ==
    /\ mainPc = "running"
    /\ mainPc' = "unsubscribe"
    /\ active' = FALSE
    /\ last' = NoCall
    /\ UNCHANGED <<storeVars, pollVars, cache, server, done, threadVars>>

\* faulty variant of PollThreadJoined: kurrentdb_unsubscribe does not wait
JoinedAtOnce == TRUE

\* pthread_join(poll_thread) of kurrentdb_unsubscribe returns
PollThreadJoined == pollPc = "exited"

MainUnsubscribe ==
    /\ mainPc = "unsubscribe"
    /\ PollThreadJoined
    /\ mainPc' = "join_bacnet"
    /\ last' = NoCall
    /\ UNCHANGED <<storeVars, pollVars, cache, server, done, active, threadVars>>

\* the task thread of main makes a lifetime update; it runs until main has
\* joined it
MainTaskThread ==
    /\ mainPc \in {"running", "unsubscribe", "join_bacnet"}
    /\ server' = bacnet_cov_update_lifetimes(server)
    /\ last' = [NoCall EXCEPT !.cov = CovCall("tick", K1, 0, "a", FALSE, 0, 1, TRUE)]
    /\ UNCHANGED <<storeVars, pollVars, cache, done, mainVars>>

MainJoinTaskThread ==
    /\ mainPc = "join_bacnet"
    /\ mainPc' = "kurrentdb_shutdown"
    /\ last' = NoCall
    /\ UNCHANGED <<storeVars, pollVars, cache, server, done, active, threadVars>>

\* kurrentdb_shutdown joins the poll thread a second time, which is
\* undefined: the join returns an error, or the process ends there
MainKurrentdbShutdown ==
    /\ mainPc = "kurrentdb_shutdown"
    /\ mainPc' \in {"bacnet_shutdown", "crashed"}
    /\ connected' = FALSE
    /\ last' = NoCall
    /\ UNCHANGED <<storeVars, pollPc, batch, cache, server, done, active, threadVars>>

MainBacnetShutdown ==
    /\ mainPc = "bacnet_shutdown"
    /\ mainPc' = "redis_shutdown"
    /\ last' = NoCall
    /\ UNCHANGED <<storeVars, pollVars, cache, server, done, active, threadVars>>

\* redis_cache_shutdown
MainRedisShutdown ==
    /\ mainPc = "redis_shutdown"
    /\ cache' = [cache EXCEPT !.connected = FALSE]
    /\ mainPc' = "exit"
    /\ last' = NoCall
    /\ UNCHANGED <<storeVars, pollVars, server, done, active, threadVars>>

NextShutdown ==
    \/ PollConnect \/ PollFetch \/ PollDeliver \/ PollExit
    \/ MainStopEventLoop \/ MainUnsubscribe \/ MainTaskThread \/ MainJoinTaskThread
    \/ MainKurrentdbShutdown \/ MainBacnetShutdown \/ MainRedisShutdown

SpecShutdown == Init /\ [][NextShutdown]_vars

(***************************************************************************)
(* Properties                                                              *)
(***************************************************************************)
\* the step is a call of on_event_received; last' is its record
OnEventStep == last'.parse # "nocall"

\* the call decoded an ObjectDefinition, a ValueUpdate or an ObjectDelete
Decoded(l) ==
    /\ l.parse = "PARSE_OK"
    /\ l.ev.mt \in {"ObjectDefinition", "ValueUpdate", "ObjectDelete"}

\* C1: for a decoded ObjectDefinition, ValueUpdate or ObjectDelete, on_event
\* returns processed only if the cache write of the object entry (put, update
\* or delete) succeeded.
C1_ProcessedOnlyAfterCacheWrite ==
    [][OnEventStep /\ Decoded(last') /\ last'.result => last'.cacheOk]_vars

\* C2: when on_event returns processed for an applied event at position p of
\* subscription s, the cursor write has succeeded and the persisted cursor of
\* s is p.
C2_CursorWrittenBeforeAck ==
    [][OnEventStep /\ last'.parse = "PARSE_OK" /\ last'.result
         => last'.cursorOk /\ cache'.cursor[last'.sub] = last'.pos]_vars

\* C3: every event at or below the persisted cursor has been applied
\* successfully or skipped because it did not decode.
C3_NoFailedEventBelowCursor ==
    \A p \in Positions : p <= cache.cursor["s1"] => p \in done

\* C4: for every event handed to on_event the event store receives exactly one
\* decision that matches the result: an ack when it returns processed, a nak
\* when it returns failed.
C4_DecisionMatchesResult ==
    [][OnEventStep =>
         /\ last'.result => last'.pos \in acks' /\ last'.pos \notin naks'
         /\ ~last'.result => last'.pos \in naks' /\ last'.pos \notin acks']_vars

\* C5: every event handed to on_event has a position strictly greater than
\* that of the event handed to on_event before it.
C5_StrictlyIncreasingPositions ==
    [][OnEventStep /\ last.pos # 0 => last'.pos > last.pos]_vars

\* a parse error of message_handler_parse
ParseFailed(l) == l.parse \notin {"nocall", "none", "PARSE_OK"}

\* C6: when message_handler_parse returns an error, on_event returns
\* processed, the registry, the cache (objects, index, cursor) are unchanged,
\* and the poll thread goes on with the remaining entries of the batch.
C6_ParseErrorIsSkipped ==
    [][OnEventStep /\ ParseFailed(last') =>
         /\ last'.result
         /\ server' = server
         /\ cache' = cache
         /\ batch' = SubSeq(batch, 1, Len(batch) - 1)
         /\ pollPc' = IF batch' = <<>> THEN "idle" ELSE "deliver"
         /\ connected' = connected
         /\ delivery' = delivery]_vars

\* an undecodable event at position 1 was skipped and the event after it was
\* applied and moved the cursor
C6_Witness ==
    /\ Len(stream) >= 2 /\ stream[1] = EvBad /\ 1 \in done
    /\ last.pos = 2 /\ last.parse = "PARSE_OK" /\ last.result
    /\ server.objects[K1].present
    /\ cache.cursor["s1"] = 2

\* C7: when the registry rejects a decoded event, on_event returns processed.
C7_RejectedEventIsAcked ==
    [][OnEventStep /\ last'.parse = "PARSE_OK" /\ last'.rejected => last'.result]_vars

\* the call applied a ValueUpdate to an object the registry holds
UpdateApplied(l) ==
    /\ l.parse = "PARSE_OK" /\ l.ev.mt = "ValueUpdate" /\ l.rc = 0
    /\ server.objects[l.ev.key].present

\* C8: a ValueUpdate of an object with COV increment c issues a notification
\* iff the new value differs from the last notified value by at least c
\* (c > 0) or at all (c = 0); on notification the last notified value becomes
\* the new value.
C8_NotifyAgainstLastNotified ==
    [][OnEventStep /\ UpdateApplied(last') =>
         LET k == last'.ev.key
             v_new == [type |-> last'.ev.vt, v |-> last'.ev.val]
             v_prev == server.objects[k].last_cov_value
             c == server.objects[k].cov_increment
             due == IF c > 0 THEN Abs(v_new.v - v_prev.v) >= c ELSE v_new.v # v_prev.v
         IN  /\ last'.called <=> due
             /\ last'.called => server'.objects[k].last_cov_value = v_new]_vars

\* C9: a ValueUpdate that changes a status flag of the object always issues a
\* COV notification, whatever the change of the present value.
C9_FlagChangeNotifies ==
    [][OnEventStep /\ UpdateApplied(last') /\ last'.ev.hasFlags
         /\ cache.blob[last'.ev.key].present
         /\ last'.ev.flags # cache.blob[last'.ev.key].status_flags
         => last'.called]_vars

\* the live subscriptions of object k: those with remaining lifetime
LiveSubs(k) ==
    {i \in 1..Len(server.subs) : server.subs[i].key = k /\ server.subs[i].lifetime > 0}

\* the sends of a notification loop addressed to subscription sub
SendsTo(sent, sub) ==
    {j \in 1..Len(sent) : /\ sent[j].process_id = sub.process_id
                         /\ sent[j].address = sub.address
                         /\ sent[j].key = sub.key}

DeleteApplied(l) ==
    l.parse = "PARSE_OK" /\ l.ev.mt = "ObjectDelete" /\ l.result

\* C11: after an ObjectDelete for object k has been applied, the registry
\* holds no object k, the cache holds neither its blob nor its index entry,
\* and the COV manager holds no subscription for k.
C11_DeleteRemovesEverything ==
    [][OnEventStep /\ DeleteApplied(last') =>
         LET k == last'.ev.key IN
         /\ ~server'.objects[k].present
         /\ ~cache'.blob[k].present
         /\ k \notin cache'.index
         /\ \A i \in 1..Len(server'.subs) : server'.subs[i].key # k]_vars

\* the subscriptions that were created or renewed with lifetime 0
Indefinite(subs) == {i \in 1..Len(subs) : subs[i].lifetime = 0 /\ subs[i].granted = 0}

\* C12: a subscription created or renewed with lifetime 0 is indefinite: no
\* tick removes it, and every notify for its object sends it one notification.
C12_LifetimeZeroIsIndefinite ==
    [][/\ last'.cov.op = "tick" =>
            \A i \in Indefinite(server.subs) :
               \E j \in 1..Len(server'.subs) : server'.subs[j] = server.subs[i]
       /\ OnEventStep /\ last'.called =>
            \A i \in Indefinite(server.subs) :
               server.subs[i].key = last'.ev.key =>
                  Cardinality(SendsTo(last'.sent, server.subs[i])) = 1]_vars


\* the table that a lifetime update of `elapsed` seconds is stated to leave:
\* finite lifetimes reduced by `elapsed`, the ones that reach 0 removed
TickedBy(subs, elapsed) ==
    LET Keep(s) == s.lifetime = 0 \/ s.lifetime > elapsed
        kept == SelectSeq(subs, Keep)
    IN  [i \in 1..Len(kept) |->
           IF kept[i].lifetime = 0 THEN kept[i]
           ELSE [kept[i] EXCEPT !.lifetime = kept[i].lifetime - elapsed]]

\* C13: a lifetime update called with elapsed_seconds reduces every finite
\* remaining lifetime by the elapsed seconds and removes exactly the
\* subscriptions whose remaining lifetime reaches 0.
C13_TickReducesByElapsed ==
    [][last'.cov.op = "tick" =>
         server'.subs = TickedBy(server.subs, last'.cov.elapsed)]_vars

\* C14: every subscription's remaining lifetime lies between 0 and the
\* lifetime given at its most recent subscribe or renewal; no lifetime
\* update wraps it below 0.
C14_LifetimeWithinGrant ==
    \A i \in 1..Len(server.subs) :
       /\ 0 <= server.subs[i].lifetime
       /\ server.subs[i].lifetime <= server.subs[i].granted

\* a lifetime update has just run over a table holding an indefinite
\* subscription and a finite one that has lost part of its lifetime
C14_Witness ==
    /\ last.cov.op = "tick"
    /\ \E i \in 1..Len(server.subs) : server.subs[i].granted = 0
    /\ \E i \in 1..Len(server.subs) :
          0 < server.subs[i].lifetime /\ server.subs[i].lifetime < server.subs[i].granted

\* the records of the table with the identity of the subscribe call `c`
Holders(subs, c) ==
    {i \in 1..Len(subs) : SameSubscriber(subs[i], c.key, c.process_id, c.address)}

\* C15: a subscribe whose identity is already in the table renews that
\* subscription in place, its lifetime and confirmed flag taking the new
\* values, and adds no record; the table never holds two records with the
\* same identity.
C15_ResubscribeRenewsInPlace ==
    [][last'.cov.op = "subscribe" =>
         /\ \A i \in Holders(server.subs, last'.cov) :
               /\ last'.cov.ok
               /\ Len(server'.subs) = Len(server.subs)
               /\ server'.subs[i].lifetime = last'.cov.lifetime
               /\ server'.subs[i].confirmed = last'.cov.confirmed
         /\ \A i, j \in 1..Len(server'.subs) :
               SameSubscriber(server'.subs[i], server'.subs[j].key,
                              server'.subs[j].process_id, server'.subs[j].address)
                  => i = j]_vars

\* C16: the number of COV subscriptions never exceeds max_subscriptions, and
\* a subscribe with a new identity at a full table is rejected and leaves the
\* table as it was.
C16_TableNeverExceedsMax ==
    [][/\ Len(server'.subs) <= MaxCovSubs
       /\ (/\ last'.cov.op = "subscribe"
           /\ Holders(server.subs, last'.cov) = {}
           /\ Len(server.subs) = MaxCovSubs)
          => ~last'.cov.ok /\ server'.subs = server.subs]_vars

\* a subscribe of a new identity on an existing object has just been rejected
\* at a full table
C16_Witness ==
    /\ last.cov.op = "subscribe"
    /\ ~last.cov.ok
    /\ server.objects[last.cov.key].present
    /\ Len(server.subs) = MaxCovSubs
    /\ Holders(server.subs, last.cov) = {}

\* an on_event call that decoded an ObjectDefinition for an object that the
\* registry holds
Redefinition(l, sv) ==
    /\ l.parse = "PARSE_OK"
    /\ l.ev.mt = "ObjectDefinition"
    /\ sv.objects[l.ev.key].present

\* C17: an ObjectDefinition for an existing object with a different
\* value_kind is rejected and changes neither the registry object nor its
\* cache record; the value_kind of an existing object never changes.
C17_KindMismatchRejected ==
    [][OnEventStep /\ Redefinition(last', server)
         /\ server.objects[last'.ev.key].present_value.type # last'.ev.vt =>
            LET k == last'.ev.key IN
            /\ ~last'.result
            /\ server'.objects[k] = server.objects[k]
            /\ cache'.blob[k] = cache.blob[k]]_vars

\* C18: an ObjectDefinition for an existing object with the same value_kind
\* succeeds and leaves the present value unchanged in the registry and in the
\* cache.
C18_SameKindRedefinitionKeepsValue ==
    [][OnEventStep /\ Redefinition(last', server) /\ last'.cacheOk
         /\ server.objects[last'.ev.key].present_value.type = last'.ev.vt =>
            LET k == last'.ev.key IN
            /\ last'.result
            /\ server'.objects[k].present_value = server.objects[k].present_value
            /\ cache.blob[k].present =>
                  cache'.blob[k].present_value = cache.blob[k].present_value]_vars

\* the step is an on_event call with the event, position and subscription of
\* the on_event call that led to the current state
Redelivery ==
    /\ OnEventStep
    /\ last.parse # "nocall"
    /\ last'.ev = last.ev
    /\ last'.pos = last.pos
    /\ last'.sub = last.sub

StaleRedelivery ==
    /\ OnEventStep
    /\ last'.parse = "PARSE_OK"
    /\ last'.cacheOk
    /\ last'.pos \in done
    /\ \E q \in done : /\ q > last'.pos
                       /\ stream[q].raw = "json"
                       /\ stream[q].key = last'.ev.key

\* C20: when an already-applied event is delivered again after later events
\* of the same object have been applied, its re-application is a no-op that
\* keeps the state of the later events, and the event is reported processed
\* so that it is acked.
C20_StaleRedeliveryIsNoOp ==
    [][StaleRedelivery =>
         /\ server' = server
         /\ cache'.blob = cache.blob
         /\ last'.result]_vars

\* the call applied an ObjectDefinition or a ValueUpdate and returned processed
AppliedToObject(l) ==
    /\ l.parse = "PARSE_OK"
    /\ l.ev.mt \in {"ObjectDefinition", "ValueUpdate"}
    /\ l.result

\* C21: after an event at position p of subscription s has been applied to
\* an object, the cache record of the object has stream_position p and the
\* persisted cursor of s is p.
C21_RecordCarriesStreamPosition ==
    [][OnEventStep /\ AppliedToObject(last') =>
         /\ cache'.blob[last'.ev.key].present
         /\ cache'.blob[last'.ev.key].stream_position = last'.pos
         /\ cache'.cursor[last'.sub] = last'.pos]_vars

\* the call decoded an event that names an object
ObjectEvent(l) ==
    /\ l.parse = "PARSE_OK"
    /\ l.ev.mt \in {"ObjectDefinition", "ValueUpdate", "ObjectDelete"}

\* C22: an object event received on a subscription with instance offset o
\* touches the registry and cache key of instance objectInstance + o only;
\* when the sum exceeds the largest unsigned value the event is rejected and
\* no object is touched.
C22_OffsetWithoutWrap ==
    [][OnEventStep /\ ObjectEvent(last') =>
         LET sum == last'.ev.key[2] + InstanceOffset(last'.sub)
             target == <<last'.ev.key[1], sum>>
         IN  IF sum <= UintMod - 1
             THEN \A k \in Keys \ {target} :
                     /\ server'.objects[k] = server.objects[k]
                     /\ cache'.blob[k] = cache.blob[k]
             ELSE /\ ~last'.result
                  /\ server' = server
                  /\ cache'.blob = cache.blob
                  /\ cache'.index = cache.index]_vars

\* C23: storing an object record in the cache and loading it back yields a
\* record equal to the stored one in every attribute.
C23_StoreLoadRoundTrip ==
    [][StoreThenLoad => last'.io.y.rc = 0 /\ last'.io.y.obj = last'.io.x]_vars

\* the step is a call of the cache function fn that returned success
CacheCallOk(fn) ==
    /\ last'.io.op = "output"
    /\ last'.io.x.fn = fn
    /\ last'.io.y = 0

\* C24: a put that reports success has written the blob and the index entry,
\* a delete that reports success has removed both, whatever the outcome of
\* the single backend commands: after it the id is in the index iff the blob
\* exists.
C24_IndexMatchesBlobs ==
    [][/\ CacheCallOk("put") =>
            /\ cache'.blob[last'.io.x.key].present
            /\ last'.io.x.key \in cache'.index
       /\ CacheCallOk("delete") =>
            /\ ~cache'.blob[last'.io.x.key].present
            /\ last'.io.x.key \notin cache'.index]_vars

\* C25: after the cache connection is lost, with the cache server reachable
\* again, the cache client is connected again at some later time, so that
\* cache operations succeed again.
C25_CacheReconnects ==
    ~redis_cache_is_connected(cache) ~> redis_cache_is_connected(cache)

\* C26: with maxReconnectAttempts n >= 0 the consumer makes at most n
\* reconnect attempts in a row after a transport error.
C26_ReconnectAttemptsBounded ==
    Attempts <= MaxReconnectAttempts

\* the position that the configured start of a subscription stands for
ConfiguredStart(x) ==
    CASE x.start_from = "BEGIN" -> 0
      [] x.start_from = "END" -> x.stream_end
      [] OTHER -> x.start_position

Max(a, b) == IF a >= b THEN a ELSE b

\* C27: the first position requested when a subscription is started is
\* max(configured start, cached cursor + 1), and the configured start when
\* no cursor is cached.
C27_StartsAfterCachedCursor ==
    [][StartSubscription =>
         last'.io.y = IF last'.io.x.cursor # NoCursor
                      THEN Max(ConfiguredStart(last'.io.x), last'.io.x.cursor + 1)
                      ELSE ConfiguredStart(last'.io.x)]_vars

\* C28: the request that a nak sends to the event store carries the action
\* given to the nak.
C28_NakForwardsAction ==
    [][NakEvent /\ last'.io.y.request.sent =>
         last'.io.y.request.action = last'.io.x.action]_vars

\* main has joined its task thread: no COV lifetime update is made any more
TickStopped ==
    mainPc \in {"kurrentdb_shutdown", "bacnet_shutdown", "redis_shutdown", "exit", "crashed"}

\* main has called bacnet_server_shutdown, or the process has ended
ServerStopped == mainPc \in {"redis_shutdown", "exit", "crashed"}

EvDefMs(key, state_count, val) ==
    [EvDef(key, "unsigned", 0, val) EXCEPT !.state_count = state_count]

EvUpdMs(key, val) == [EvUpd(key, val, FALSE, NoFlags) EXCEPT !.vt = "unsigned"]

MultiStateEvents ==
    {EvDefMs(K3, n, v) : n \in {2, 3}, v \in {1, 2}}
      \cup {EvUpdMs(K3, v) : v \in 0..4}
      \cup {EvDel(K3), EvDef(K1, "real", 0, 200), EvUpd(K1, 204, FALSE, NoFlags)}

MultiStateApplyEvent ==
    \E e \in MultiStateEvents : OnEvent(e, 1, AllOk, <<>>)

NextMultiState == MultiStateApplyEvent

SpecMultiState == InitApply /\ [][NextMultiState]_vars

\* C30: every multi-state object of the registry and of the cache has a present
\* value between 1 and its state_count, and a ValueUpdate whose multi-state
\* presentValue lies outside that range changes neither registry nor cache
C30_MultiStateValueInRange ==
    [][/\ cache'.blob[K3].present =>
             /\ cache'.blob[K3].present_value \in 1..cache'.blob[K3].state_count
             /\ server'.objects[K3].present =>
                   server'.objects[K3].present_value.v \in 1..cache'.blob[K3].state_count
       /\ (/\ OnEventStep
           /\ last'.ev.mt = "ValueUpdate" /\ last'.ev.key = K3
           /\ cache.blob[K3].present
           /\ last'.ev.val \notin 1..cache.blob[K3].state_count)
          => server' = server /\ cache'.blob = cache.blob]_vars

(***************************************************************************)
(* Decoder (message_handler.c 139-533).  A document is the text handed to  *)
(* message_handler_parse: wellformed tells whether cJSON parses it, the    *)
(* other fields are the members of the envelope and of its payload.  A     *)
(* member is a record [t, s, n, b]: t is its JSON type ("absent" when the  *)
(* member is missing), s its string, n its number, b its boolean.          *)
(***************************************************************************)
OBJECT_ANALOG_INPUT == 0
OBJECT_ANALOG_OUTPUT == 1
OBJECT_BINARY_INPUT == 3
OBJECT_BINARY_OUTPUT == 4
OBJECT_BINARY_VALUE == 5
OBJECT_MULTI_STATE_INPUT == 13
OBJECT_MULTI_STATE_OUTPUT == 14

JAbsent == [t |-> "absent", s |-> "", n |-> 0, b |-> FALSE]
JNull == [t |-> "null", s |-> "", n |-> 0, b |-> FALSE]
JString(s) == [t |-> "string", s |-> s, n |-> 0, b |-> FALSE]
JNumber(n) == [t |-> "number", s |-> "", n |-> n, b |-> FALSE]
JBool(b) == [t |-> "bool", s |-> "", n |-> 0, b |-> b]

cJSON_IsString(item) == item.t = "string"
cJSON_IsNumber(item) == item.t = "number"
cJSON_IsTrue(item) == item.t = "bool" /\ item.b

\* item->valuedouble: cJSON sets it for numbers only, every other item keeps
\* the 0 of its allocation
valuedouble(item) == IF cJSON_IsNumber(item) THEN item.n ELSE 0

parse_message_type(type_str) ==
    CASE type_str = "ObjectDefinition" -> "ObjectDefinition"
      [] type_str = "ValueUpdate" -> "ValueUpdate"
      [] type_str = "ObjectDelete" -> "ObjectDelete"
      [] type_str = "DeviceConfig" -> "DeviceConfig"
      [] OTHER -> "MSG_TYPE_UNKNOWN"

parse_object_type(type_str) ==
    CASE type_str = "analog-input" -> OBJECT_ANALOG_INPUT
      [] type_str = "analog-output" -> OBJECT_ANALOG_OUTPUT
      [] type_str = "analog-value" -> OBJECT_ANALOG_VALUE
      [] type_str = "binary-input" -> OBJECT_BINARY_INPUT
      [] type_str = "binary-output" -> OBJECT_BINARY_OUTPUT
      [] type_str = "binary-value" -> OBJECT_BINARY_VALUE
      [] type_str = "multi-state-input" -> OBJECT_MULTI_STATE_INPUT
      [] type_str = "multi-state-output" -> OBJECT_MULTI_STATE_OUTPUT
      [] type_str = "multi-state-value" -> OBJECT_MULTI_STATE_VALUE
      [] OTHER -> -1

parse_value_type(type_str) ==
    CASE type_str = "real" -> "real"
      [] type_str = "unsigned" -> "unsigned"
      [] type_str = "signed" -> "signed"
      [] type_str = "boolean" -> "boolean"
      [] type_str = "enumerated" -> "enumerated"
      [] OTHER -> "real"

\* the parsed_message_t left by a failed parse: the memset of the entry
NoMessage == [type |-> "none", object_type |-> 0, object_instance |-> 0,
              value_type |-> "null", value |-> 0]

Parsed(result, msg) == [result |-> result, msg |-> msg]

parse_object_definition(doc, type) ==
    IF ~cJSON_IsString(doc.objectType)
    THEN Parsed("PARSE_ERROR_MISSING_FIELD", NoMessage)
    ELSE IF parse_object_type(doc.objectType.s) < 0
    THEN Parsed("PARSE_ERROR_INVALID_VALUE", NoMessage)
    ELSE IF ~cJSON_IsNumber(doc.objectInstance)
    THEN Parsed("PARSE_ERROR_MISSING_FIELD", NoMessage)
    ELSE IF ~cJSON_IsString(doc.objectName)
    THEN Parsed("PARSE_ERROR_MISSING_FIELD", NoMessage)
    ELSE IF ~cJSON_IsString(doc.presentValueType)
    THEN Parsed("PARSE_ERROR_MISSING_FIELD", NoMessage)
    ELSE Parsed("PARSE_OK",
                [type |-> type, object_type |-> parse_object_type(doc.objectType.s),
                 object_instance |-> doc.objectInstance.n % UintMod,
                 value_type |-> parse_value_type(doc.presentValueType.s),
                 value |-> 0])

parse_value_update(doc, type) ==
    IF ~cJSON_IsString(doc.objectType)
    THEN Parsed("PARSE_ERROR_MISSING_FIELD", NoMessage)
    ELSE IF parse_object_type(doc.objectType.s) < 0
    THEN Parsed("PARSE_ERROR_INVALID_VALUE", NoMessage)
    ELSE IF ~cJSON_IsNumber(doc.objectInstance)
    THEN Parsed("PARSE_ERROR_MISSING_FIELD", NoMessage)
    ELSE IF doc.presentValue.t = "absent"
    THEN Parsed("PARSE_ERROR_MISSING_FIELD", NoMessage)
    ELSE LET object_type == parse_object_type(doc.objectType.s)
             item == doc.presentValue
             m == [type |-> type, object_type |-> object_type,
                   object_instance |-> doc.objectInstance.n % UintMod]
         IN  Parsed("PARSE_OK",
               CASE object_type \in {OBJECT_BINARY_INPUT, OBJECT_BINARY_OUTPUT,
                                     OBJECT_BINARY_VALUE} ->
                      m @@ [value_type |-> "boolean",
                            value |-> IF cJSON_IsTrue(item)
                                         \/ (cJSON_IsNumber(item) /\ valuedouble(item) # 0)
                                      THEN 1 ELSE 0]
                 [] object_type \in {OBJECT_MULTI_STATE_INPUT, OBJECT_MULTI_STATE_OUTPUT,
                                     OBJECT_MULTI_STATE_VALUE} ->
                      m @@ [value_type |-> "unsigned",
                            value |-> valuedouble(item) % UintMod]
                 [] OTHER ->
                      m @@ [value_type |-> "real", value |-> valuedouble(item)])

parse_object_delete(doc, type) ==
    IF ~cJSON_IsString(doc.objectType)
    THEN Parsed("PARSE_ERROR_MISSING_FIELD", NoMessage)
    ELSE IF parse_object_type(doc.objectType.s) < 0
    THEN Parsed("PARSE_ERROR_INVALID_VALUE", NoMessage)
    ELSE IF ~cJSON_IsNumber(doc.objectInstance)
    THEN Parsed("PARSE_ERROR_MISSING_FIELD", NoMessage)
    ELSE Parsed("PARSE_OK",
                [NoMessage EXCEPT !.type = type,
                                  !.object_type = parse_object_type(doc.objectType.s),
                                  !.object_instance = doc.objectInstance.n % UintMod])

parse_device_config(doc, type) == Parsed("PARSE_OK", [NoMessage EXCEPT !.type = type])

\* message_handler_parse on a document, with the message it leaves
ParseDocument(doc) ==
    IF ~doc.wellformed THEN Parsed("PARSE_ERROR_INVALID_JSON", NoMessage)
    ELSE IF ~cJSON_IsString(doc.messageType)
    THEN Parsed("PARSE_ERROR_MISSING_FIELD", NoMessage)
    ELSE IF parse_message_type(doc.messageType.s) = "MSG_TYPE_UNKNOWN"
    THEN Parsed("PARSE_ERROR_UNKNOWN_MESSAGE_TYPE", NoMessage)
    ELSE IF ~cJSON_IsString(doc.sourceId)
    THEN Parsed("PARSE_ERROR_MISSING_FIELD", NoMessage)
    ELSE IF doc.payload # "object"
    THEN Parsed("PARSE_ERROR_MISSING_FIELD", NoMessage)
    ELSE LET type == parse_message_type(doc.messageType.s) IN
         CASE type = "ObjectDefinition" -> parse_object_definition(doc, type)
           [] type = "ValueUpdate" -> parse_value_update(doc, type)
           [] type = "ObjectDelete" -> parse_object_delete(doc, type)
           [] OTHER -> parse_device_config(doc, type)

\* the documents handed to the decoder
Documents ==
    [wellformed : BOOLEAN,
     messageType : {JAbsent, JNumber(1), JString("Bogus"), JString("ObjectDefinition"),
                    JString("ValueUpdate"), JString("ObjectDelete"),
                    JString("DeviceConfig")},
     sourceId : {JAbsent, JString("s1")},
     payload : {"absent", "string", "object"},
     objectType : {JAbsent, JString("bogus"), JString("analog-value"),
                   JString("binary-value"), JString("multi-state-value")},
     objectInstance : {JAbsent, JString("1"), JNumber(1)},
     objectName : {JAbsent, JString("T")},
     presentValueType : {JAbsent, JString("real"), JString("unsigned"),
                         JString("boolean")},
     presentValue : {JAbsent, JNull, JString("on"), JNumber(2), JBool(TRUE)}]

\* only the members a document's envelope reaches differ between documents
ParseInputs ==
    {d \in Documents :
       /\ ~d.wellformed => d.messageType = JAbsent /\ d.sourceId = JAbsent
                           /\ d.payload = "absent"
       /\ d.payload # "object" =>
             /\ d.objectType = JAbsent /\ d.objectInstance = JAbsent
             /\ d.objectName = JAbsent /\ d.presentValueType = JAbsent
             /\ d.presentValue = JAbsent}

InitParse ==
    /\ stream = <<>> /\ delivery = <<>>
    /\ InitState
    /\ \E d \in ParseInputs : last = Input(d)

ParseMessage ==
    /\ last.io.op = "input"
    /\ last' = Output(last.io.x, ParseDocument(last.io.x))
    /\ UNCHANGED <<mainVars, storeVars, pollVars, cache, server, done>>

NextParse == ParseMessage

SpecParse == InitParse /\ [][NextParse]_vars

\* the value kind parse_value_update derives for the object type of a document
UpdateValueType(doc) ==
    parse_value_update([doc EXCEPT !.presentValue = JNumber(1)], "ValueUpdate").msg.value_type

\* C31: a decoded ObjectDefinition of a binary object has value kind boolean and
\* one of a multi-state object has value kind unsigned, whatever presentValueType
\* says, which is the kind a ValueUpdate of the same object type derives
C31_DefinitionKindFromObjectType ==
    [][(/\ last'.io.op = "output"
        /\ last'.io.y.result = "PARSE_OK"
        /\ last'.io.y.msg.type = "ObjectDefinition"
        /\ last'.io.y.msg.object_type \in
              {OBJECT_BINARY_INPUT, OBJECT_BINARY_OUTPUT, OBJECT_BINARY_VALUE,
               OBJECT_MULTI_STATE_INPUT, OBJECT_MULTI_STATE_OUTPUT,
               OBJECT_MULTI_STATE_VALUE})
       => /\ last'.io.y.msg.value_type =
                IF last'.io.y.msg.object_type \in
                      {OBJECT_BINARY_INPUT, OBJECT_BINARY_OUTPUT, OBJECT_BINARY_VALUE}
                THEN "boolean" ELSE "unsigned"
          /\ last'.io.y.msg.value_type = UpdateValueType(last'.io.x)]_vars

\* the required members of a document's message type, with the JSON types each may have
RequiredMembers(doc) ==
    LET type == IF cJSON_IsString(doc.messageType) THEN doc.messageType.s ELSE "" IN
    {<<doc.messageType, {"string"}>>, <<doc.sourceId, {"string"}>>}
      \cup (IF doc.payload = "object" /\ type \in {"ObjectDefinition", "ValueUpdate",
                                                  "ObjectDelete"}
            THEN {<<doc.objectType, {"string"}>>, <<doc.objectInstance, {"number"}>>}
            ELSE {})
      \cup (IF doc.payload = "object" /\ type = "ObjectDefinition"
            THEN {<<doc.objectName, {"string"}>>, <<doc.presentValueType, {"string"}>>}
            ELSE {})
      \cup (IF doc.payload = "object" /\ type = "ValueUpdate"
            THEN {<<doc.presentValue, {"number", "bool"}>>}
            ELSE {})

\* the typed errors that name something wrong with a document
Faults(doc) ==
    IF ~doc.wellformed THEN {"PARSE_ERROR_INVALID_JSON"}
    ELSE (IF \E m \in RequiredMembers(doc) : m[1].t = "absent"
          THEN {"PARSE_ERROR_MISSING_FIELD"} ELSE {})
      \cup (IF doc.payload = "absent" THEN {"PARSE_ERROR_MISSING_FIELD"} ELSE {})
      \cup (IF \E m \in RequiredMembers(doc) : m[1].t \notin m[2] \cup {"absent"}
            THEN {"PARSE_ERROR_INVALID_TYPE"} ELSE {})
      \cup (IF doc.payload = "string" THEN {"PARSE_ERROR_INVALID_TYPE"} ELSE {})
      \cup (IF cJSON_IsString(doc.messageType)
               /\ parse_message_type(doc.messageType.s) = "MSG_TYPE_UNKNOWN"
            THEN {"PARSE_ERROR_UNKNOWN_MESSAGE_TYPE"} ELSE {})
      \cup (IF /\ doc.payload = "object"
               /\ <<doc.objectType, {"string"}>> \in RequiredMembers(doc)
               /\ cJSON_IsString(doc.objectType)
               /\ parse_object_type(doc.objectType.s) < 0
            THEN {"PARSE_ERROR_INVALID_VALUE"} ELSE {})

\* C32: message_handler_parse returns PARSE_OK exactly for the documents with
\* nothing wrong (known messageType, sourceId, object payload, every required
\* member present with its JSON type), and otherwise a typed error that names
\* something wrong with the document
C32_ParseOkOnlyForConformingDocuments ==
    [][last'.io.op = "output" =>
          IF Faults(last'.io.x) = {}
          THEN last'.io.y.result = "PARSE_OK"
          ELSE last'.io.y.result \in Faults(last'.io.x)]_vars

(***************************************************************************)
(* Registry and cache mirror: on_event_received is called with             *)
(* definitions, updates and deletions of three objects while the registry  *)
(* holds at most MaxObjects of them and Redis answers every command.       *)
(***************************************************************************)
MirrorEvents ==
    {EvDef(k, "real", 0, 200) : k \in Keys}
      \cup {EvDefMs(K3, 2, 1), EvUpd(K1, 204, FALSE, NoFlags), EvUpdMs(K3, 2)}
      \cup {EvDel(k) : k \in ObjectKeys}

MirrorApplyEvent ==
    \E e \in MirrorEvents : OnEvent(e, 1, AllOk, <<>>)

NextMirror == MirrorApplyEvent

SpecMirror == InitApply /\ [][NextMirror]_vars

\* C33: between two applies an object is in the registry exactly when the cache
\* holds its entry; a definition the registry refuses leaves no cache entry
C33_RegistryMirrorsCache ==
    \A k \in ObjectKeys : server.objects[k].present <=> cache.blob[k].present

(***************************************************************************)
(* Updates of objects the registry does not hold: definitions, updates and *)
(* deletions of three objects with at most MaxObjects in the registry,     *)
(* while BACnet clients subscribe; a deletion leaves the subscriptions of  *)
(* its object in the list.  Redis answers every command.                   *)
(***************************************************************************)
NotFoundEvents ==
    {EvDef(k, "real", 0, 200) : k \in Keys}
      \cup {EvDefMs(K3, 2, 1), EvUpd(K1, 204, FALSE, NoFlags), EvUpdMs(K3, 2),
            EvDel(K1), EvDel(K3)}

NotFoundApplyEvent ==
    \E e \in NotFoundEvents :
      \E sendOk \in SendResults(server, e) : OnEvent(e, 1, AllOk, sendOk)

NextNotFound == NotFoundApplyEvent \/ CovSubscribe

SpecNotFound == InitApply /\ [][NextNotFound]_vars

\* C34: a ValueUpdate of an object the registry does not hold fails, creates
\* the object neither in the registry nor in the cache and sends no COV
\* notification
C34_UpdateOfUnknownObjectRejected ==
    [][(/\ OnEventStep /\ last'.parse = "PARSE_OK" /\ last'.ev.mt = "ValueUpdate"
        /\ ~server.objects[last'.ev.key].present)
       => /\ ~last'.result
          /\ server' = server
          /\ ~cache.blob[last'.ev.key].present => cache'.blob = cache.blob
          /\ last'.sent = <<>> /\ ~last'.called]_vars

\* an update of K1 was refused while a client still subscribes to K1 and
\* the cache holds K3, which the registry refused
C34_Witness ==
    /\ last.parse = "PARSE_OK" /\ last.ev.mt = "ValueUpdate" /\ ~last.result
    /\ last.ev.key = K1 /\ ~server.objects[K1].present
    /\ \E i \in 1..Len(server.subs) : server.subs[i].key = K1
    /\ cache.blob[K3].present /\ ~server.objects[K3].present

\* C35: a ValueUpdate writes the registry before the cache: when the cache write
\* of a ValueUpdate for an object of the registry fails, the registry holds the
\* new value all the same, the cursor stays and the event is returned as failed
C35_RegistryWrittenBeforeCache ==
    [][(/\ OnEventStep /\ last'.parse = "PARSE_OK" /\ last'.ev.mt = "ValueUpdate"
        /\ server.objects[last'.ev.key].present
        /\ ~last'.cacheOk)
       => /\ server'.objects[last'.ev.key].present_value.v = last'.ev.val
          /\ cache'.cursor = cache.cursor
          /\ ~last'.result]_vars

(***************************************************************************)
(* Threads (main.c, bacnet_server.c).  main loads the cursor of each       *)
(* subscription with redis_cache_load_stream_position and starts its       *)
(* delivery loop, one subscription after the other; a started delivery     *)
(* loop calls on_event_received, which takes g_mutex around the handler    *)
(* and the cursor write; bacnet_task_thread of main.c updates the COV      *)
(* lifetimes under g_mutex; bacnet_task_thread_func, the thread that       *)
(* bacnet_server_start creates, updates them under the lock of the server  *)
(* only.  Redis answers every command.                                     *)
(***************************************************************************)
SubOrder == <<"s1", "s2">>

\* the delivery loop of subscription t has been created
Started(t) == \E i \in 1..Len(SubOrder) : SubOrder[i] = t /\ i < startPc.i

\* the events of the stream of subscription t; those of s2 name instance 0,
\* which the offset of s2 makes instance 2
ThreadEvents(t) ==
    LET k == IF t = "s1" THEN K1 ELSE <<OBJECT_ANALOG_VALUE, 0>> IN
    {EvDef(k, "real", 0, 200), EvUpd(k, 204, FALSE, NoFlags), EvDel(k)}

\* the threads inside a command on the one Redis connection and its key buffer
RedisUsers ==
    {t \in Subs : applyPc[t] = "cache"}
      \cup (IF startPc.phase = "loading" THEN {"main"} ELSE {})

StartLoadBegin ==
    /\ startPc.i <= Len(SubOrder) /\ startPc.phase = "idle"
    /\ startPc' = [startPc EXCEPT !.phase = "loading"]
    /\ last' = NoCall
    /\ UNCHANGED <<storeVars, pollVars, cache, server, done, mainPc, active,
                   g_mutex, applyPc, client, pollThreads>>

\* the HGET returns; two threads inside hiredis on one context at a time is
\* undefined: the connection may be left in its error state
StartLoadEnd ==
    /\ startPc.phase = "loading"
    /\ startPc' = [startPc EXCEPT !.phase = "loaded"]
    /\ \/ cache' = cache
       \/ /\ RedisUsers # {"main"}
          /\ cache' = [cache EXCEPT !.err = TRUE]
    /\ last' = NoCall
    /\ UNCHANGED <<storeVars, pollVars, server, done, mainPc, active, g_mutex, applyPc, client, pollThreads>>

\* kurrentdb_subscribe_persistent creates the delivery loop of the subscription
StartSubscribe ==
    /\ startPc.phase = "loaded"
    /\ startPc' = [i |-> startPc.i + 1, phase |-> "idle"]
    /\ last' = NoCall
    /\ UNCHANGED <<storeVars, pollVars, cache, server, done, mainPc, active,
                   g_mutex, applyPc, client, pollThreads>>

ApplyLock(t) ==
    /\ Started(t) /\ applyPc[t] = "idle" /\ g_mutex = "none"
    /\ g_mutex' = t
    /\ applyPc' = [applyPc EXCEPT ![t] = "locked"]
    /\ last' = NoCall
    /\ UNCHANGED <<storeVars, pollVars, cache, server, done, mainPc, active, startPc, client, pollThreads>>

ApplyEnter(t) ==
    /\ applyPc[t] = "locked"
    /\ applyPc' = [applyPc EXCEPT ![t] = "cache"]
    /\ last' = NoCall
    /\ UNCHANGED <<storeVars, pollVars, cache, server, done, mainPc, active,
                   g_mutex, startPc, client, pollThreads>>

ApplyFinish(t) ==
    /\ applyPc[t] = "cache"
    /\ \E e \in ThreadEvents(t) :
         LET r == on_event_received([cs |-> cache, sv |-> server], t, 1, e, AllOk,
                                    [i \in 1..MaxCovSubs |-> TRUE])
         IN  /\ cache' = r.st.cs
             /\ server' = r.st.sv
             /\ last' = CallRecord(r, 0, t, 1, e)
    /\ applyPc' = [applyPc EXCEPT ![t] = "applied"]
    /\ UNCHANGED <<storeVars, pollVars, done, mainPc, active, g_mutex, startPc, client, pollThreads>>

ApplyUnlock(t) ==
    /\ applyPc[t] = "applied"
    /\ g_mutex' = "none"
    /\ applyPc' = [applyPc EXCEPT ![t] = "idle"]
    /\ last' = NoCall
    /\ UNCHANGED <<storeVars, pollVars, cache, server, done, mainPc, active, startPc, client, pollThreads>>

\* bacnet_task_thread of main.c: lock g_mutex, update the lifetimes, unlock
TaskTick ==
    /\ g_mutex = "none"
    /\ server' = bacnet_cov_update_lifetimes(server)
    /\ last' = [NoCall EXCEPT !.cov = CovCall("tick", K1, 0, "a", FALSE, 0, 1, TRUE)]
    /\ UNCHANGED <<mainVars, storeVars, pollVars, cache, done>>

\* bacnet_task_thread_func of the server: update the lifetimes
ServerTick ==
    /\ server' = bacnet_cov_update_lifetimes(server)
    /\ last' = [NoCall EXCEPT !.cov = CovCall("tick", K1, 0, "a", FALSE, 0, 0, TRUE)]
    /\ UNCHANGED <<mainVars, storeVars, pollVars, cache, done>>

NextThreads ==
    \/ StartLoadBegin \/ StartLoadEnd \/ StartSubscribe
    \/ \E t \in Subs : ApplyLock(t) \/ ApplyEnter(t) \/ ApplyFinish(t) \/ ApplyUnlock(t)
    \/ TaskTick \/ ServerTick \/ CovSubscribe

SpecThreads == InitApply /\ [][NextThreads]_vars

\* C36: at most one delivery loop is inside an apply, and no update of the COV
\* lifetimes is made while a delivery loop is inside one
C36_ApplyExcludesTaskSteps ==
    [][/\ Cardinality({t \in Subs : applyPc'[t] # "idle"}) <= 1
       /\ (last'.cov.op = "tick" /\ applyPc' = applyPc)
          => \A t \in Subs : applyPc[t] = "idle"]_vars

\* C37: at most one thread at a time is inside a command on the Redis
\* connection and its key buffer
C37_OneCacheUserAtATime == Cardinality(RedisUsers) <= 1

(***************************************************************************)
(* Subscription records of the client (kurrentdb_client.c).  main          *)
(* registers subscriptions, each registration creating a poll thread whose *)
(* argument points at its record in client->subscriptions; at shutdown     *)
(* main stops the event loop, unsubscribes handles and destroys the        *)
(* client.  Reading through a pointer into a block the realloc has freed,  *)
(* taking a pointer that is not the client for the client, and joining a   *)
(* thread a second time are undefined: each has every outcome it can have. *)
(***************************************************************************)
MaxSubscriptions == InitialCapacity + 1

\* the user_data the callers of kurrentdb_subscribe_persistent pass; main passes NULL
UserData == {"NULL"}

otherVars == <<storeVars, pollVars, cache, server, last, done, mainPc, active,
               g_mutex, applyPc, startPc>>

\* the record the argument of poll thread i points to is in the current array
Valid(i) == pollThreads[i].base = client.base

ClientSubscribe ==
    /\ client.phase = "running" /\ Len(client.subs) < MaxSubscriptions
    /\ \E user_data \in UserData, moved \in BOOLEAN :
         LET grow == Len(client.subs) >= client.capacity
             base == IF moved THEN client.base + 1 ELSE client.base
         IN  /\ moved => grow
             /\ client' = [client EXCEPT
                             !.base = base,
                             !.capacity = IF grow THEN 2 * @ ELSE @,
                             !.subs = Append(@, [user_data |-> user_data,
                                                 active |-> TRUE, joins |-> 0])]
             /\ pollThreads' = Append(pollThreads,
                                      [base |-> base, client |-> "unread",
                                       state |-> "created"])
    /\ UNCHANGED otherVars

\* subscription_poll_thread up to its loop: client = sub->user_data, then
\* client->base_url is read
PollThreadStart ==
    \E i \in 1..Len(pollThreads) :
      /\ client.phase \in {"running", "stopping"}
      /\ pollThreads[i].state = "created"
      /\ \E taken \in {client.subs[i].user_data, "garbage"}, crash \in BOOLEAN :
           /\ taken = "garbage" => ~Valid(i)
           /\ pollThreads' = [pollThreads EXCEPT ![i].client = taken,
                                                 ![i].state = "polling"]
           /\ client' = [client EXCEPT !.phase = IF crash THEN "crashed" ELSE @]
      /\ UNCHANGED otherVars

\* the test of the while loop finds sub->active false
PollThreadExit ==
    \E i \in 1..Len(pollThreads) :
      /\ client.phase \in {"running", "stopping"}
      /\ pollThreads[i].state = "polling"
      /\ ~client.subs[i].active \/ ~Valid(i)
      /\ pollThreads' = [pollThreads EXCEPT ![i].state = "exited"]
      /\ UNCHANGED <<otherVars, client>>

ClientStopEventLoop ==
    /\ client.phase = "running"
    /\ client' = [client EXCEPT
                    !.phase = "stopping",
                    !.subs = [i \in 1..Len(@) |-> [@[i] EXCEPT !.active = FALSE]]]
    /\ UNCHANGED <<otherVars, pollThreads>>

\* kurrentdb_unsubscribe of handle i: the join returns once the thread has
\* ended; poll_thread is left as it was
ClientUnsubscribe ==
    \E i \in 1..Len(pollThreads) :
      /\ client.phase = "stopping"
      /\ pollThreads[i].state = "exited"
      /\ client.subs[i].joins < 2
      /\ \E crash \in BOOLEAN :
           /\ crash => client.subs[i].joins >= 1
           /\ client' = [client EXCEPT !.subs[i].joins = @ + 1,
                                       !.phase = IF crash THEN "crashed" ELSE @]
      /\ UNCHANGED <<otherVars, pollThreads>>

\* kurrentdb_client_destroy: joins every record whose poll_thread is set
ClientDestroy ==
    /\ client.phase = "stopping"
    /\ \A i \in 1..Len(pollThreads) : pollThreads[i].state = "exited"
    /\ \E crash \in BOOLEAN :
         /\ crash => \E i \in 1..Len(client.subs) : client.subs[i].joins >= 1
         /\ client' = [client EXCEPT
                         !.subs = [i \in 1..Len(@) |-> [@[i] EXCEPT !.joins = @ + 1]],
                         !.phase = IF crash THEN "crashed" ELSE "destroyed"]
    /\ UNCHANGED <<otherVars, pollThreads>>

NextClient ==
    \/ ClientSubscribe \/ PollThreadStart \/ PollThreadExit
    \/ ClientStopEventLoop \/ ClientUnsubscribe \/ ClientDestroy

SpecClient == InitApply /\ [][NextClient]_vars

\* C38: a poll thread takes the client that created its subscription as its
\* client, never the caller's user_data
C38_PollThreadUsesItsClient ==
    \A i \in 1..Len(pollThreads) : pollThreads[i].client \in {"unread", "client"}

\* C39: the record a poll thread that has not ended reads is in the current
\* array of the client
C39_RecordsStayInPlace ==
    \A i \in 1..Len(pollThreads) :
       pollThreads[i].state \in {"created", "polling"} => Valid(i)

\* C40: during shutdown no poll thread is joined more than once
C40_JoinedOnce ==
    \A i \in 1..Len(client.subs) : client.subs[i].joins <= 1

=============================================================================
